---- MODULE Spec2Model ----
(***************************************************************************)
(* Symbolik: parser for Microsoft CodeView NB0x debug data (symbolik.py).  *)
(*                                                                         *)
(* The model follows the byte level of the source: a file is a sequence of *)
(* bytes 0..255, the stream is the pair (file, pos), struct.unpack is      *)
(* little-endian arithmetic on those bytes, and every Python exception the *)
(* code can raise ends the call with exc set and nothing returned.         *)
(***************************************************************************)
EXTENDS Integers, Sequences, FiniteSets, TLC

VARIABLES
    pc,        \* where the program is
    job,       \* the input the run was started with (never changes)
    file,      \* content of the stream fp
    pos,       \* cursor of the stream fp
    szfile,    \* findCodeview: szfile
    ofs,       \* findCodeview: loop variable ofs
    dlfaBase,  \* readSubsectionDirectory: argument dlfaBase
    dirStart,  \* stream position when readSubsectionDirectory was entered
    cdnt,      \* readSubsectionDirectory: cdnt
    i,         \* readSubsectionDirectory: number of loop iterations completed
    subsecs,   \* readSubsectionDirectory: subsecs
    data,      \* sstModules / sstPublics called directly: argument data
    ret,       \* value returned by the finished call, [kind |-> "None"] if none
    exc        \* exception raised by the finished call, "none" if none

vars == <<pc, job, file, pos, szfile, ofs, dlfaBase, dirStart, cdnt, i,
          subsecs, data, ret, exc>>

----------------------------------------------------------------------------
(* Bytes, slices, struct *)

Min(a, b) == IF a < b THEN a ELSE b
Max(a, b) == IF a > b THEN a ELSE b

\* b'NB0'
NB0 == <<78, 66, 48>>

\* Python b[lo:hi] for 0 <= lo, 0 <= hi: both ends are clamped to len(b).
Slice(b, lo, hi) == SubSeq(b, Min(lo, Len(b)) + 1, Min(hi, Len(b)))

\* Python b[start:] for any integer start: a negative start counts from the
\* end and is clamped to 0; -0 is 0, so b[-0:] is the whole of b.
SliceFrom(b, start) ==
    IF start < 0
    THEN Slice(b, Max(Len(b) + start, 0), Len(b))
    ELSE Slice(b, start, Len(b))

\* bytes.startswith
StartsWith(b, p) == Len(b) >= Len(p) /\ SubSeq(b, 1, Len(p)) = p

\* struct: unsigned little-endian fields at byte offset o (0-based) of b.
\* The model's integers end at 2^31 - 1: UnpackL is defined for fields whose
\* top byte is below 128, and the inputs keep to them. Python's integers are
\* unbounded, so a larger field behaves as any value beyond the file does.
UnpackB(b, o) == b[o + 1]
UnpackH(b, o) == b[o + 1] + 256 * b[o + 2]
UnpackL(b, o) == b[o + 1] + 256 * b[o + 2] + 65536 * b[o + 3] + 16777216 * b[o + 4]

\* bytes.decode('ascii'): defined on bytes below 128 only (UnicodeDecodeError
\* otherwise); the string is the sequence of its code points.
IsAscii(b) == \A k \in 1..Len(b) : b[k] < 128
DecodeAscii(b) == [k \in 1..Len(b) |-> b[k]]

\* fp.read(n) at cursor p: at most n bytes, fewer at end of file
Read(f, p, n) == Slice(f, p, p + n)

None == [kind |-> "None"]

----------------------------------------------------------------------------
(* class SST(IntEnum) *)

SST_MODULES == 257
SST_PUBLICS == 258
SST_TYPE == 259
SST_SYMBOLS == 260
SST_SRCLINES == 261
SST_LIBRARIES == 262
SST_COMPACTED == 264
SST_SRCLNSEG == 265

\* an enumeration that also defines 0x107
SSTValuesWith107 ==
    {SST_MODULES, SST_PUBLICS, SST_TYPE, SST_SYMBOLS, SST_SRCLINES,
     SST_LIBRARIES, 263, SST_COMPACTED, SST_SRCLNSEG}

\* The members of the enumeration: SST(v) raises ValueError for any other v.
SSTValues ==
    {SST_MODULES, SST_PUBLICS, SST_TYPE, SST_SYMBOLS, SST_SRCLINES,
     SST_LIBRARIES, SST_COMPACTED, SST_SRCLNSEG}

----------------------------------------------------------------------------
(* Subsection, sstModules, sstPublics *)

\* Subsection.__init__
Subsection(sst, module, d) ==
    [kind |-> "Subsection", sst |-> sst, module |-> module, data |-> d]

\* struct.calcsize('<HHHHHBBB') and struct.calcsize('<HHHB')
ModHeaderSize == 13
PubRecordSize == 7

\* a build that keeps only the low byte of the field
ModLibIndxLow(d) == UnpackB(d, 8)

\* self.libIndx: the fifth field of '<HHHHHBBB', an H at byte offset 8
ModLibIndx(d) == UnpackH(d, 8)

\* data[-strlen:]
ModName(d, strlen) == SliceFrom(d, 0 - strlen)

\* sstModules.__init__: the record built, or the exception raised
sstModules(sst, module, d) ==
    IF Len(d) < ModHeaderSize
    THEN [exc |-> "struct.error", rec |-> None]
    ELSE LET strlen == UnpackB(d, 12)
             name == ModName(d, strlen)
         IN  IF ~IsAscii(name)
             THEN [exc |-> "UnicodeDecodeError", rec |-> None]
             ELSE [exc |-> "none",
                   rec |-> [kind |-> "sstModules", sst |-> sst,
                            module |-> module, data |-> d,
                            csBase |-> UnpackH(d, 0), csOfs |-> UnpackH(d, 2),
                            csLen |-> UnpackH(d, 4), ovl |-> UnpackH(d, 6),
                            libIndx |-> ModLibIndx(d),
                            nsegs |-> UnpackB(d, 10),
                            string |-> DecodeAscii(name)]]

\* PublicSymbol.__init__
PublicSymbol(offset, segment, typeidx, name) ==
    [offset |-> offset, segment |-> segment, typeidx |-> typeidx, name |-> name]

\* data[dofs:dofs+namelen]
PubName(d, dofs, namelen) == Slice(d, dofs, dofs + namelen)

\* a build that collects the symbols newest first
PubPrepend(syms, sym) == <<sym>> \o syms

\* syms.append(...)
PubAppend(syms, sym) == Append(syms, sym)

\* The while loop of sstPublics.__init__ from cursor dofs with syms collected:
\* the symbols and the final cursor, or the exception raised.
RECURSIVE PubLoop(_, _, _)
PubLoop(d, dofs, syms) ==
    IF ~(dofs < Len(d))
    THEN [exc |-> "none", symbols |-> syms, dofs |-> dofs]
    ELSE IF Len(d) - dofs < PubRecordSize
    THEN [exc |-> "struct.error", symbols |-> <<>>, dofs |-> dofs]
    ELSE LET namelen == UnpackB(d, dofs + 6)
             d1 == dofs + PubRecordSize
             name == PubName(d, d1, namelen)
         IN  IF ~IsAscii(name)
             THEN [exc |-> "UnicodeDecodeError", symbols |-> <<>>, dofs |-> d1]
             ELSE PubLoop(d, d1 + namelen,
                          PubAppend(syms,
                                    PublicSymbol(UnpackH(d, dofs),
                                                 UnpackH(d, dofs + 2),
                                                 UnpackH(d, dofs + 4),
                                                 DecodeAscii(name))))

\* sstPublics.__init__: the record built, or the exception raised. dofs is
\* the local cursor when the loop ended.
sstPublics(sst, module, d) ==
    LET r == PubLoop(d, 0, <<>>)
    IN  IF r.exc # "none"
        THEN [exc |-> r.exc, rec |-> None]
        ELSE [exc |-> "none",
              rec |-> [kind |-> "sstPublics", sst |-> sst, module |-> module,
                       data |-> d, symbols |-> r.symbols, dofs |-> r.dofs]]

----------------------------------------------------------------------------
(* findCodeview *)

\* range(-8, -256, -1): first value and the (excluded) stop
ScanFirst == -8
ScanStop == -256
\* struct.calcsize('<4sL')
TrailerSize == 8

\* sig.startswith(b'NB0')
SigOk(sig) == StartsWith(sig, NB0)

\* a build that accepts whatever is found at the candidate address
NestedOkAny(nsig) == TRUE

\* nsig.startswith(b'NB0')
NestedOk(nsig) == StartsWith(nsig, NB0)

\* dlfaBase = fp.tell()-dlfaBase
BaseOf(tell, trailer) == tell - trailer

\* the bounds check: TRUE when the candidate is skipped
OutOfBounds(base, sz) == base < 0 \/ base > sz

\* One iteration of the for loop for offset o on file f of size sz:
\*   continue -- the loop goes on to the next offset
\*   return   -- the function returns val
\*   raise    -- the function ends with exception exc
\* p is the cursor the iteration leaves, p0 the cursor it starts with. fp is
\* an OS file: a seek to before the start of the file fails with OSError
\* (EINVAL) and leaves the cursor where it was.
FindIter(f, sz, o, p0) ==
    LET at == Len(f) + o
    IN
    IF at < 0
    THEN [kind |-> "raise", exc |-> "OSError", val |-> None, p |-> p0]
    ELSE
    LET buf == Read(f, at, TrailerSize)
        tell == at + Len(buf)
    IN
    IF Len(buf) # TrailerSize
    THEN [kind |-> "raise", exc |-> "struct.error", val |-> None, p |-> tell]
    ELSE
    LET sig == SubSeq(buf, 1, 4)
        base == BaseOf(tell, UnpackL(buf, 4))
    IN
    IF ~SigOk(sig)
    THEN [kind |-> "continue", exc |-> "none", val |-> None, p |-> tell]
    ELSE IF OutOfBounds(base, sz)
    THEN [kind |-> "continue", exc |-> "none", val |-> None, p |-> tell]
    ELSE
    LET nbuf == Read(f, base, TrailerSize)
        ntell == base + Len(nbuf)
    IN
    IF Len(nbuf) # TrailerSize
    THEN [kind |-> "raise", exc |-> "struct.error", val |-> None, p |-> ntell]
    ELSE IF ~NestedOk(SubSeq(nbuf, 1, 4))
    THEN [kind |-> "continue", exc |-> "none", val |-> None, p |-> ntell]
    ELSE IF ~IsAscii(sig)
    THEN [kind |-> "raise", exc |-> "UnicodeDecodeError", val |-> None, p |-> ntell]
    ELSE [kind |-> "return", exc |-> "none",
          val |-> [kind |-> "tuple", sig |-> DecodeAscii(sig), base |-> base,
                   dir |-> UnpackL(nbuf, 4) + base],
          p |-> ntell]

----------------------------------------------------------------------------
(* readSubsectionDirectory *)

\* struct.calcsize('<H') and struct.calcsize('<HHLH')
CountSize == 2
HeaderSize == 10

\* a build that seeks to lfoStart without adding the base
PayloadPosNoBase(lfoStart, base) == lfoStart

\* fp.seek(lfoStart + dlfaBase, 0): the absolute position of the payload
PayloadPos(lfoStart, base) == lfoStart + base

\* FACTORY dispatch: the record for a header of member type sst
Decode(sst, module, d) ==
    IF sst = SST_MODULES THEN sstModules(sst, module, d)
    ELSE IF sst = SST_PUBLICS THEN sstPublics(sst, module, d)
    ELSE [exc |-> "none", rec |-> Subsection(sst, module, d)]

\* One iteration of the for loop with the cursor at p: the record appended
\* and the cursor left, or the exception raised.
DirIter(f, p, base) ==
    LET hb == Read(f, p, HeaderSize)
        saved == p + Len(hb)
    IN
    IF Len(hb) # HeaderSize
    THEN [exc |-> "struct.error", rec |-> None, p |-> saved]
    ELSE
    LET sst == UnpackH(hb, 0)
        module == UnpackH(hb, 2)
        lfoStart == UnpackL(hb, 4)
        cb == UnpackH(hb, 8)
        target == PayloadPos(lfoStart, base)
    IN
    IF target < 0
    THEN [exc |-> "OSError", rec |-> None, p |-> saved]
    ELSE
    LET d == Read(f, target, cb)
    IN
    IF sst \notin SSTValues
    THEN [exc |-> "ValueError", rec |-> None, p |-> saved]
    ELSE LET r == Decode(sst, module, d)
         IN  [exc |-> r.exc, rec |-> r.rec, p |-> saved]

----------------------------------------------------------------------------
(* Inputs: the files and payloads the runs start from *)

\* Bounds of the inputs
MaxNameLen == 2
MaxSyms == 2
MaxCount == 2

\* struct.pack('<H', v), struct.pack('<L', v), struct.pack('<B', v)
PackB(v) == <<v % 256>>
PackH(v) == <<v % 256, (v \div 256) % 256>>
PackL(v) ==
    <<v % 256, (v \div 256) % 256, (v \div 65536) % 256, (v \div 16777216) % 256>>

RECURSIVE Concat(_)
Concat(ss) == IF ss = <<>> THEN <<>> ELSE Head(ss) \o Concat(Tail(ss))

\* ASCII names up to MaxNameLen characters over "A", "B"
NameChars == {65, 66}
Names == UNION {[1..n -> NameChars] : n \in 0..MaxNameLen}

\* A module payload as a linker lays it out: the 13-byte header with the
\* length of the name in its last byte, padding, the name at the end.
EncModule(m, pad) ==
    PackH(m.csBase) \o PackH(m.csOfs) \o PackH(m.csLen) \o PackH(m.ovl)
        \o PackH(m.lib) \o PackB(m.nsegs) \o PackB(0) \o PackB(Len(m.name))
        \o pad \o m.name

\* A publics payload: each symbol's 7-byte record followed by its name.
EncPublic(e) ==
    PackH(e.offset) \o PackH(e.segment) \o PackH(e.typeidx)
        \o PackB(Len(e.name)) \o e.name
EncPublics(es) == Concat([k \in 1..Len(es) |-> EncPublic(es[k])])

\* b without its last c bytes
Chop(b, c) == SubSeq(b, 1, Len(b) - Min(c, Len(b)))

ModFields ==
    { [csBase |-> 16, csOfs |-> 4660, csLen |-> 65535, ovl |-> 1, lib |-> 515,
       nsegs |-> 2],
      [csBase |-> 65535, csOfs |-> 0, csLen |-> 1, ovl |-> 0, lib |-> 0,
       nsegs |-> 255],
      [csBase |-> 1, csOfs |-> 2, csLen |-> 3, ovl |-> 4, lib |-> 65280,
       nsegs |-> 0] }
ModPads == {<<>>, <<0>>, <<200, 1>>}
ModJobs ==
    { [kind |-> "mod", pad |-> pad,
       enc |-> [csBase |-> m.csBase, csOfs |-> m.csOfs, csLen |-> m.csLen,
                ovl |-> m.ovl, lib |-> m.lib, nsegs |-> m.nsegs, name |-> nm]]
      : m \in ModFields, nm \in Names, pad \in ModPads }

\* Symbol k of a publics job with seed v
PubEntry(v, k, nm) ==
    [offset |-> (v + k) % 65536, segment |-> (v + 2 * k) % 65536,
     typeidx |-> (3 * v + k) % 65536, name |-> nm]
PubSeeds == {0, 65520}
PubCuts == {0, 1, 2}
PubJobs ==
    { [kind |-> "pub", cut |-> c,
       syms |-> [k \in 1..Len(nms) |-> PubEntry(v, k, nms[k])]]
      : nms \in UNION {[1..n -> Names] : n \in 0..MaxSyms},
        v \in PubSeeds, c \in PubCuts }

\* Files for findCodeview
Fill(n) == [k \in 1..n |-> 0]
Patch(f, at, b) ==
    [k \in 1..Len(f) |-> IF k > at /\ k <= at + Len(b) THEN b[k - at] ELSE f[k]]
Window(sig, v) == sig \o PackL(v)

PlainLens == (0..9) \cup {254, 255, 256}
PatchLens == {30, 270}
\* "NB00", "NB0\xff", "NB10", "NB01"
SigNB00 == <<78, 66, 48, 48>>
SigNB0x == <<78, 66, 48, 255>>
SigNB10 == <<78, 66, 49, 48>>
SigNB01 == <<78, 66, 48, 49>>

\* The trailer value of a window after which the cursor is at tell, in a
\* file with a header at h: one that resolves to the header, to the byte
\* after it, to -1, to the window's own last 4 bytes, to the window's end,
\* and one far larger than any file position.
TrailerKinds == {"header", "off", "negative", "near", "eof", "huge"}
TrailerValue(k, tell, h) ==
    CASE k = "header" -> tell - h
      [] k = "off" -> tell - (h + 1)
      [] k = "negative" -> tell + 1
      [] k = "near" -> 4
      [] k = "eof" -> 0
      [] k = "huge" -> 2130706432

\* A file of n bytes with a header at h, a window o2 bytes before the end
\* with signature sig2 and trailer kind k2, and a window o1 bytes before the
\* end with signature sig1 and trailer kind k1 (o1 < o2, so the o1 window is
\* the one nearer the end).
PatchedFile(n, h, o1, sig1, k1, o2, sig2, k2) ==
    Patch(Patch(Patch(Fill(n), h, Window(SigNB00, 8)),
                n - o2, Window(sig2, TrailerValue(k2, n - o2 + 8, h))),
          n - o1, Window(sig1, TrailerValue(k1, n - o1 + 8, h)))

PatchedFiles ==
    { PatchedFile(n, h, o1, sig1, k1, 17, sig2, k2)
      : n \in PatchLens, h \in {0, 2}, o1 \in {8, 9},
        sig1 \in {SigNB00, SigNB0x, SigNB10}, k1 \in TrailerKinds,
        sig2 \in {SigNB01, SigNB10}, k2 \in {"header", "off"} }

\* Images for readSubsectionDirectory: base filler bytes, the header, a
\* module payload and a publics payload, the directory.
ImgModule ==
    EncModule([csBase |-> 16, csOfs |-> 4660, csLen |-> 65535, ovl |-> 1,
               lib |-> 515, nsegs |-> 2, name |-> <<77, 65, 73, 78>>], <<>>)
ImgPublics ==
    EncPublics(<<PubEntry(256, 1, <<65>>), PubEntry(256, 2, <<66, 67>>)>>)
ImgPayloads == ImgModule \o ImgPublics

\* (payloadStart, payloadLength) of a header: the module payload, the
\* publics payload, a payload that runs past the end of the file, a
\* payload that starts past the end of the file
Extents ==
    { <<8, Len(ImgModule)>>, <<8 + Len(ImgModule), Len(ImgPublics)>>,
      <<8 + Len(ImgModule), 65535>>, <<70000, 4>> }
DirTypes == {257, 258, 263, 265}
DirHeaders == DirTypes \X Extents

EncHeader(t, module, ext) ==
    PackH(t) \o PackH(module) \o PackL(ext[1]) \o PackH(ext[2])
\* The directory with headers hs, header k owned by module m + k
EncDirectory(hs, m) ==
    PackH(Len(hs))
        \o Concat([k \in 1..Len(hs) |-> EncHeader(hs[k][1], m + k, hs[k][2])])

Image(base, hs, m) ==
    Fill(base) \o Window(SigNB00, 8 + Len(ImgPayloads)) \o ImgPayloads
        \o EncDirectory(hs, m)
ImageDirPos(base) == base + 8 + Len(ImgPayloads)

DirBases == {<<0, 0>>, <<5, 257>>}
DirCuts == {0, 1, 11}
DirLists == UNION {[1..n -> DirHeaders] : n \in 0..MaxCount}
DirJobs ==
    { [kind |-> "dir", base |-> bm[1],
       file |-> Chop(Image(bm[1], hs, bm[2]),
                     Min(c, CountSize + HeaderSize * Len(hs)))]
      : hs \in DirLists, bm \in DirBases, c \in DirCuts }

\* Complete executables: an image followed by the trailer pointing at it
ExeFiles ==
    { Image(bm[1], hs, bm[2])
          \o Window(SigNB00, Len(Image(bm[1], hs, bm[2])) + 8 - bm[1])
      : hs \in UNION {[1..n -> DirHeaders] : n \in 0..1}, bm \in DirBases }

FindFiles == {Fill(n) : n \in PlainLens} \cup PatchedFiles \cup ExeFiles

----------------------------------------------------------------------------
(* The program *)

Start(p, j, f, at, base, d) ==
    /\ pc = p
    /\ job = j
    /\ file = f
    /\ pos = at
    /\ dlfaBase = base
    /\ data = d
    /\ szfile = 0
    /\ ofs = 0
    /\ dirStart = 0
    /\ cdnt = 0
    /\ i = 0
    /\ subsecs = <<>>
    /\ ret = None
    /\ exc = "none"

\* A run is one call: findCodeview on an open file (and then the rest of the
\* script), readSubsectionDirectory on a stream positioned at a directory,
\* or a decoder on a payload.
Init ==
    \/ \E f \in FindFiles : Start("find_start", [kind |-> "find"], f, 0, 0, <<>>)
    \/ \E j \in DirJobs :
          Start("dir_start", [kind |-> "dir"], j.file, ImageDirPos(j.base),
                j.base, <<>>)
    \/ \E j \in ModJobs : Start("mod_start", j, <<>>, 0, 0, EncModule(j.enc, j.pad))
    \/ \E j \in PubJobs :
          Start("pub_start", j, <<>>, 0, 0, Chop(EncPublics(j.syms), j.cut))

\* findCodeview: fp.seek(0, 2); szfile = fp.tell()
FindBegin ==
    /\ pc = "find_start"
    /\ szfile' = Len(file)
    /\ pos' = Len(file)
    /\ ofs' = ScanFirst
    /\ pc' = "find_loop"
    /\ UNCHANGED <<job, file, dlfaBase, dirStart, cdnt, i, subsecs, data, ret, exc>>

\* findCodeview: one iteration of the for loop
FindStep ==
    /\ pc = "find_loop"
    /\ ofs > ScanStop
    /\ LET r == FindIter(file, szfile, ofs, pos)
       IN  /\ pos' = r.p
           /\ ofs' = IF r.kind = "continue" THEN ofs - 1 ELSE ofs
           /\ pc' = IF r.kind = "continue" THEN "find_loop" ELSE "find_done"
           /\ ret' = r.val
           /\ exc' = r.exc
    /\ UNCHANGED <<job, file, szfile, dlfaBase, dirStart, cdnt, i, subsecs, data>>

\* findCodeview: the loop is exhausted, return None
FindNone ==
    /\ pc = "find_loop"
    /\ ofs = ScanStop
    /\ pc' = "find_done"
    /\ ret' = None
    /\ UNCHANGED <<job, file, pos, szfile, ofs, dlfaBase, dirStart, cdnt, i,
                   subsecs, data, exc>>

\* the script: x is None, raise IOError
MainNotFound ==
    /\ pc = "find_done"
    /\ exc = "none"
    /\ ret = None
    /\ pc' = "main_done"
    /\ exc' = "IOError"
    /\ UNCHANGED <<job, file, pos, szfile, ofs, dlfaBase, dirStart, cdnt, i,
                   subsecs, data, ret>>

\* the script: fp.seek(subsecBase); readSubsectionDirectory(fp, dlfaBase)
MainReadDirectory ==
    /\ pc = "find_done"
    /\ exc = "none"
    /\ ret # None
    /\ pos' = ret.dir
    /\ dlfaBase' = ret.base
    /\ ret' = None
    /\ pc' = "dir_start"
    /\ UNCHANGED <<job, file, szfile, ofs, dirStart, cdnt, i, subsecs, data, exc>>

\* readSubsectionDirectory: read the count
DirBegin ==
    /\ pc = "dir_start"
    /\ LET buf == Read(file, pos, CountSize)
       IN  /\ pos' = pos + Len(buf)
           /\ dirStart' = pos
           /\ IF Len(buf) # CountSize
              THEN /\ exc' = "struct.error"
                   /\ pc' = "dir_done"
                   /\ cdnt' = cdnt
              ELSE /\ exc' = exc
                   /\ pc' = "dir_loop"
                   /\ cdnt' = UnpackH(buf, 0)
    /\ i' = 0
    /\ subsecs' = <<>>
    /\ UNCHANGED <<job, file, szfile, ofs, dlfaBase, data, ret>>

\* readSubsectionDirectory: one iteration of the for loop
DirStep ==
    /\ pc = "dir_loop"
    /\ i < cdnt
    /\ LET r == DirIter(file, pos, dlfaBase)
       IN  /\ pos' = r.p
           /\ exc' = r.exc
           /\ IF r.exc = "none"
              THEN /\ subsecs' = Append(subsecs, r.rec)
                   /\ i' = i + 1
                   /\ pc' = "dir_loop"
              ELSE /\ subsecs' = subsecs
                   /\ i' = i
                   /\ pc' = "dir_done"
    /\ UNCHANGED <<job, file, szfile, ofs, dlfaBase, dirStart, cdnt, data, ret>>

\* readSubsectionDirectory: return subsecs
DirReturn ==
    /\ pc = "dir_loop"
    /\ i = cdnt
    /\ ret' = [kind |-> "list", items |-> subsecs]
    /\ pc' = "dir_done"
    /\ UNCHANGED <<job, file, pos, szfile, ofs, dlfaBase, dirStart, cdnt, i,
                   subsecs, data, exc>>

\* sstModules(SST.SST_MODULES, 1, data)
CallModules ==
    /\ pc = "mod_start"
    /\ LET r == sstModules(SST_MODULES, 1, data)
       IN  /\ ret' = r.rec
           /\ exc' = r.exc
    /\ pc' = "mod_done"
    /\ UNCHANGED <<job, file, pos, szfile, ofs, dlfaBase, dirStart, cdnt, i,
                   subsecs, data>>

\* sstPublics(SST.SST_PUBLICS, 1, data)
CallPublics ==
    /\ pc = "pub_start"
    /\ LET r == sstPublics(SST_PUBLICS, 1, data)
       IN  /\ ret' = r.rec
           /\ exc' = r.exc
    /\ pc' = "pub_done"
    /\ UNCHANGED <<job, file, pos, szfile, ofs, dlfaBase, dirStart, cdnt, i,
                   subsecs, data>>

Next ==
    \/ FindBegin
    \/ FindStep
    \/ FindNone
    \/ MainNotFound
    \/ MainReadDirectory
    \/ DirBegin
    \/ DirStep
    \/ DirReturn
    \/ CallModules
    \/ CallPublics

Spec == Init /\ [][Next]_vars

----------------------------------------------------------------------------
(* Properties *)

\* The bytes of the window that starts k bytes before the end of f
WindowAt(f, k) == Slice(f, Len(f) - k, Len(f) - k + TrailerSize)

\* The windows of f that the scan covers: ofs = -8 .. -255
ScanOffsets(f) == {k \in (0 - ScanFirst)..(0 - ScanStop - 1) : k <= Len(f)}

\* The address the window k bytes before the end of f resolves to
WindowBase(f, k) == Len(f) - k + TrailerSize - UnpackL(WindowAt(f, k), 4)

\* The window k bytes before the end of f carries an "NB0" signature and
\* resolves to an address inside f where 8 bytes starting "NB0" are found.
Accepted(f, k) ==
    /\ StartsWith(WindowAt(f, k), NB0)
    /\ WindowBase(f, k) >= 0
    /\ WindowBase(f, k) <= Len(f)
    /\ Len(Slice(f, WindowBase(f, k), WindowBase(f, k) + TrailerSize)) = TrailerSize
    /\ StartsWith(Slice(f, WindowBase(f, k), WindowBase(f, k) + TrailerSize), NB0)

FindReturned == pc = "find_done" /\ exc = "none"

\* C1: findCodeview returns None, and raises nothing, for every file shorter
\* than 8 bytes and for every file in which no window at offsets -8 .. -255
\* from the end begins with "NB0".
C1_NotFoundIsNone ==
    ( /\ pc = "find_done"
      /\ \/ Len(file) < TrailerSize
         \/ \A k \in ScanOffsets(file) : ~StartsWith(WindowAt(file, k), NB0) )
    => (exc = "none" /\ ret = None)

\* C2: whenever findCodeview returns a tuple, its base is inside the file,
\* the file has "NB0" at the base, the signature is the accepted window's
\* first 4 bytes, the base is (window start + 8) - trailer value and the
\* directory offset is the base plus the 32-bit value stored at base + 4.
C2_ResultResolves ==
    (FindReturned /\ ret # None) =>
        LET at == Len(file) + ofs
        IN  /\ ret.base = (at + 8) - UnpackL(file, at + 4)
            /\ 0 <= ret.base
            /\ ret.base <= Len(file)
            /\ StartsWith(Slice(file, ret.base, ret.base + 4), NB0)
            /\ ret.sig = SubSeq(file, at + 1, at + 4)
            /\ ret.dir = ret.base + UnpackL(file, ret.base + 4)

\* C2 witness: a tuple returned for a window the scan reached after skipping
\* the windows nearer the end, with a base that is not the start of the file
C2_Witness ==
    /\ FindReturned
    /\ ret # None
    /\ ofs < ScanFirst
    /\ ret.base > 0

\* C3: every candidate window that does not resolve to a header (its base
\* outside the file, no "NB0" at the base, or fewer than 8 bytes left at the
\* base) is skipped without aborting, so the scan ends with the accepted
\* window nearest the end of the file, or with None when there is none.
\* Stated for files of at least 255 bytes whose "NB0" signatures are ASCII.
C3_RejectedAreSkipped ==
    ( /\ pc = "find_done"
      /\ Len(file) >= 0 - ScanStop - 1
      /\ \A k \in ScanOffsets(file) :
            StartsWith(WindowAt(file, k), NB0)
                => IsAscii(SubSeq(WindowAt(file, k), 1, 4)) )
    => /\ exc = "none"
       /\ IF \E k \in ScanOffsets(file) : Accepted(file, k)
          THEN /\ ret # None
               /\ Accepted(file, 0 - ofs)
               /\ \A k \in ScanOffsets(file) : k < 0 - ofs => ~Accepted(file, k)
               /\ ret.base = WindowBase(file, 0 - ofs)
          ELSE ret = None

\* Header k (1-based) of the directory that starts at position start of f
HeaderAt(f, start, k) ==
    Slice(f, start + CountSize + HeaderSize * (k - 1),
          start + CountSize + HeaderSize * k)
HeaderType(f, start, k) == UnpackH(HeaderAt(f, start, k), 0)
HeaderModule(f, start, k) == UnpackH(HeaderAt(f, start, k), 2)
HeaderStart(f, start, k) == UnpackL(HeaderAt(f, start, k), 4)
HeaderLength(f, start, k) == UnpackH(HeaderAt(f, start, k), 8)
\* The bytes of f that header k's payload extent covers, for base b
HeaderPayload(f, start, k, b) ==
    Slice(f, HeaderStart(f, start, k) + b,
          HeaderStart(f, start, k) + b + HeaderLength(f, start, k))

DirReturned == pc = "dir_done" /\ exc = "none"

\* C4: a directory read that completes returns exactly as many records as
\* the 16-bit count read first, record k carrying the type and module index
\* of header k and the bytes read at payloadStart_k + baseOffset; after
\* header k is handled the cursor is immediately after header k.
C4_RecordsFollowHeaders ==
    /\ pc = "dir_loop" =>
          /\ pos = dirStart + CountSize + HeaderSize * i
          /\ Len(subsecs) = i
    /\ DirReturned =>
          /\ ret.kind = "list"
          /\ Len(ret.items) = UnpackH(file, dirStart)
          /\ pos = dirStart + CountSize + HeaderSize * Len(ret.items)
          /\ \A k \in 1..Len(ret.items) :
                /\ Len(HeaderAt(file, dirStart, k)) = HeaderSize
                /\ ret.items[k].sst = HeaderType(file, dirStart, k)
                /\ ret.items[k].module = HeaderModule(file, dirStart, k)
                /\ ret.items[k].data = HeaderPayload(file, dirStart, k, dlfaBase)

\* C4 witness: two records returned from a directory whose base is not 0,
\* the second with a payload that is not empty
C4_Witness ==
    /\ DirReturned
    /\ dlfaBase > 0
    /\ Len(ret.items) = 2
    /\ Len(ret.items[2].data) > 0

\* C5: a read that obtains fewer bytes than requested fails the directory
\* read: no returned record has a payload shorter than its header's
\* payloadLength.
C5_ShortPayloadFails ==
    DirReturned =>
        \A k \in 1..Len(ret.items) :
            Len(ret.items[k].data) = HeaderLength(file, dirStart, k)

\* The position in the directory being read has a complete header k
HasHeader(k) == Len(HeaderAt(file, dirStart, k)) = HeaderSize

\* C6 as stated: the accepted types are nine, the values 0x101 .. 0x109, so
\* a read never fails with an invalid-type error on a header of such a type.
C6_NineTypesAccepted ==
    (pc = "dir_done" /\ exc = "ValueError")
        => HeaderType(file, dirStart, i + 1) \notin 257..265

\* The eight defined types: 0x101 .. 0x106, 0x108, 0x109
EightTypes == {257, 258, 259, 260, 261, 262, 264, 265}

\* C6 as amended: the type check passes exactly for the eight defined types.
\* A header of another type fails the read with nothing returned, also after
\* valid headers; every header handled, and every record returned, has one
\* of the eight types; a type other than modules and publics yields a plain
\* Subsection with the header's type and module index and the payload read.
C6_EightTypesAccepted ==
    /\ (pc = "dir_done" /\ exc = "ValueError") =>
          /\ HeaderType(file, dirStart, i + 1) \notin EightTypes
          /\ ret = None
    /\ (pc = "dir_done" /\ exc # "ValueError" /\ i < cdnt /\ HasHeader(i + 1)) =>
          HeaderType(file, dirStart, i + 1) \in EightTypes
    /\ pc \in {"dir_loop", "dir_done"} =>
          \A k \in 1..i :
              /\ HeaderType(file, dirStart, k) \in EightTypes
              /\ subsecs[k].sst = HeaderType(file, dirStart, k)
    /\ DirReturned =>
          \A k \in 1..Len(ret.items) :
              /\ ret.items[k].sst \in EightTypes
              /\ ret.items[k].sst \notin {SST_MODULES, SST_PUBLICS} =>
                    ret.items[k] =
                        [kind |-> "Subsection",
                         sst |-> HeaderType(file, dirStart, k),
                         module |-> HeaderModule(file, dirStart, k),
                         data |-> HeaderPayload(file, dirStart, k, dlfaBase)]

\* C6 witness: the read fails on an undefined type in the second header,
\* after a first header that was accepted
C6_Witness ==
    /\ pc = "dir_done"
    /\ exc = "ValueError"
    /\ i = 1
    /\ ret = None

\* C7: a module payload built from a chosen name and chosen field values
\* decodes to a record with that name and those values.
C7_ModuleRoundTrip ==
    pc = "mod_done" =>
        /\ exc = "none"
        /\ ret.string = job.enc.name
        /\ ret.csBase = job.enc.csBase
        /\ ret.csOfs = job.enc.csOfs
        /\ ret.csLen = job.enc.csLen
        /\ ret.nsegs = job.enc.nsegs

\* C8: a publics payload built from N symbols decodes to exactly those N
\* symbols, in order, with the same offsets, segments, type indices, names.
C8_PublicsRoundTrip ==
    (pc = "pub_done" /\ job.cut = 0) =>
        /\ exc = "none"
        /\ ret.symbols = job.syms

\* C8 witness: two symbols decoded, the first with an empty name
C8_Witness ==
    /\ pc = "pub_done"
    /\ job.cut = 0
    /\ exc = "none"
    /\ Len(job.syms) = 2
    /\ job.syms[1].name = <<>>
    /\ job.syms[2].name # <<>>
    /\ Len(ret.symbols) = 2

\* C9: a publics payload whose last name is longer than the bytes that
\* remain after its record fails to decode, and a decode that succeeds ends
\* with its cursor at the length of the payload.
C9_OverrunFails ==
    /\ ( /\ pc = "pub_done"
         /\ Len(job.syms) > 0
         /\ job.cut > 0
         /\ job.cut <= Len(job.syms[Len(job.syms)].name) )
       => exc # "none"
    /\ (pc = "pub_done" /\ exc = "none") => ret.dofs = Len(data)

\* C10 as stated: libIndx is the low byte of the 16-bit field at payload
\* bytes 8..9, an 8-bit value.
C10_LibIndxLowByte ==
    (pc = "mod_done" /\ exc = "none") =>
        /\ ret.libIndx = data[9]
        /\ ret.libIndx < 256

\* C10 as amended: libIndx is the whole 16-bit field at payload bytes 8..9,
\* low byte plus 256 times high byte, in every module record decoded.
C10_LibIndxWholeField ==
    /\ (pc = "mod_done" /\ exc = "none") =>
          ret.libIndx = data[9] + 256 * data[10]
    /\ pc \in {"dir_loop", "dir_done"} =>
          \A k \in 1..Len(subsecs) :
              subsecs[k].kind = "sstModules" =>
                  subsecs[k].libIndx
                      = subsecs[k].data[9] + 256 * subsecs[k].data[10]

\* C10 witness: a module decoded from a payload whose field has a high byte
C10_Witness ==
    /\ pc = "mod_done"
    /\ exc = "none"
    /\ data[10] # 0
    /\ ret.libIndx >= 256

====
